---- MODULE Spec2Model ----
(***************************************************************************)
(* Conversation / request lifecycle of the NCS chat page                   *)
(* (src/frontend/src/app/page.tsx).                                        *)
(*                                                                         *)
(* The React state of NCSChatbot (messages, input, isLoading) is the       *)
(* program state.  Every handler runs to its next await inside one React   *)
(* batch, so one action is one handler segment followed by the commit of   *)
(* its state updates: handleSubmit up to `await fetch`, the segment that   *)
(* runs when fetch settles, and the segment that runs when                 *)
(* response.json() settles.  A handler reads input and isLoading of the    *)
(* render it was created in; React commits the updates of one event before *)
(* it dispatches the next, so that render is the current state.  The       *)
(* `disabled` attributes of the field and the button are left out: the     *)
(* handlers themselves are what guards the state.                          *)
(* Text is a sequence of characters.  An                                   *)
(* optional field of a Message is a BOOLEAN for isLoading / error (TRUE    *)
(* iff the code set it to true) and a record [present, items] for sources. *)
(***************************************************************************)
EXTENDS Integers, Sequences, FiniteSets, TLC

(* ----------------------------- bounds --------------------------------- *)
\* The number of accepted submits in one run.
MaxExchanges == 2

(* ------------------------------ text ---------------------------------- *)
Whitespace == {" ", "\t"}

\* The values typed into the field: empty, whitespace only, text with
\* leading and trailing whitespace, text with inner whitespace.
Texts ==
  {<<>>, <<" ", "\t">>, <<"\t", "a", " ">>, <<"a", " ", "b">>}

RECURSIVE TrimStart(_)
TrimStart(s) ==
  IF s # <<>> /\ Head(s) \in Whitespace THEN TrimStart(Tail(s)) ELSE s

RECURSIVE TrimEnd(_)
TrimEnd(s) ==
  IF s # <<>> /\ s[Len(s)] \in Whitespace
  THEN TrimEnd(SubSeq(s, 1, Len(s) - 1)) ELSE s

Trim_StartOnly(s) == TrimStart(s)
Trim(s) == TrimEnd(TrimStart(s))

\* JavaScript truthiness of a string: the empty string is falsy.
Truthy(s) == s # <<>>

(* ---------------------------- messages -------------------------------- *)
WelcomeText == <<"Welcome, Officer. I am your instant knowledge assistant. Ask me about tariffs, prohibited items, or the NCS Act.">>
FallbackText == <<"I apologize, but I could not generate a response.">>
ErrorText == <<"I apologize, but I encountered an error connecting to the knowledge base. Please ensure the backend service is running and try again.">>

NoSources == [present |-> FALSE, items |-> <<>>]

WelcomeMessage ==
  [role |-> "assistant", content |-> WelcomeText, sources |-> NoSources,
   isLoading |-> FALSE, error |-> FALSE]

UserMessage(text) ==
  [role |-> "user", content |-> text, sources |-> NoSources,
   isLoading |-> FALSE, error |-> FALSE]

PlaceholderMessage ==
  [role |-> "assistant", content |-> <<>>, sources |-> NoSources,
   isLoading |-> TRUE, error |-> FALSE]

AnswerMessage_OmitEmpty(content, srcs) ==
  [role |-> "assistant", content |-> content,
   sources |-> [present |-> srcs # <<>>, items |-> srcs],
   isLoading |-> FALSE, error |-> FALSE]
AnswerMessage(content, srcs) ==
  [role |-> "assistant", content |-> content,
   sources |-> [present |-> TRUE, items |-> srcs],
   isLoading |-> FALSE, error |-> FALSE]

ErrorMessage ==
  [role |-> "assistant", content |-> ErrorText, sources |-> NoSources,
   isLoading |-> FALSE, error |-> TRUE]

\* prev.slice(0, -1)
SliceLast(prev) == SubSeq(prev, 1, Len(prev) - 1)

(* ----------------------- the answering service ------------------------ *)
\* How `await fetch(...)` settles: the promise rejects (network failure),
\* resolves with response.ok false, or resolves with response.ok true.
FetchOutcomes == {"reject", "notok", "ok"}

Undefined == "undefined"

\* One element of data.sources: JSON null, a JSON primitive (every property
\* read gives undefined), or an object with the two fields.
NullItem == [kind |-> "null", source_text_preview |-> Undefined, metadata |-> Undefined]
PrimItem == [kind |-> "prim", source_text_preview |-> Undefined, metadata |-> Undefined]
Item1 == [kind |-> "object", source_text_preview |-> "p1", metadata |-> "m1"]
Item2 == [kind |-> "object", source_text_preview |-> "p2", metadata |-> Undefined]

\* The arrays the service returns as data.sources.
ItemLists ==
  {<<>>, <<PrimItem>>, <<Item1, Item2>>, <<NullItem>>, <<Item1, NullItem>>}

\* data.sources: absent, a falsy value (null, 0, "", false), a truthy value
\* that is not an array (no .map), or an array of items.
AbsentSources == [kind |-> "absent", items |-> <<>>]
SourcesValues ==
  {AbsentSources, [kind |-> "falsy", items |-> <<>>],
   [kind |-> "nonarray", items |-> <<>>]}
  \cup {[kind |-> "array", items |-> l] : l \in ItemLists}

\* data.answer: absent, or a string (possibly empty).
NoAnswer == [present |-> FALSE, value |-> <<>>]
AnswerValues == {NoAnswer} \cup {[present |-> TRUE, value |-> v] : v \in {<<>>, <<"ans">>}}

\* What response.json() yields: a rejection (body is not JSON), JSON null,
\* another non-object JSON value (every property read gives undefined), or
\* an object.
NoBody == [kind |-> "none", answer |-> NoAnswer, sources |-> AbsentSources]
Bodies ==
  {[kind |-> k, answer |-> NoAnswer, sources |-> AbsentSources] :
      k \in {"unparseable", "null", "scalar"}}
  \cup [kind : {"object"}, answer : AnswerValues, sources : SourcesValues]

(* --------------------------- handleSubmit ----------------------------- *)
\* if (!input.trim() || isLoading) return
SubmitRejected_IgnoresFlag(inp, loading) == ~Truthy(Trim(inp))
SubmitRejected_And(inp, loading) == ~Truthy(Trim(inp)) /\ loading
SubmitRejected_NoTrim(inp, loading) == ~Truthy(inp) \/ loading
SubmitRejected(inp, loading) == ~Truthy(Trim(inp)) \/ loading

\* setMessages((prev) => [...prev, { role: "user", content: userMessage }])
AddUser(prev, userMessage) == Append(prev, UserMessage(userMessage))

\* setMessages((prev) => [...prev, { role: "assistant", content: "", isLoading: true }])
AddLoading_None(prev) == prev
AddLoading(prev) == Append(prev, PlaceholderMessage)

\* if (!response.ok) throw ...; a rejected fetch throws at the await.
FetchThrows_IgnoresStatus(outcome) == outcome = "reject"
FetchThrows(outcome) == outcome = "reject" \/ outcome = "notok"

\* (s) => ({ text: s.source_text_preview, metadata: s.metadata })
MapSource_Swapped(s) == [text |-> s.metadata, metadata |-> s.source_text_preview]
MapSource(s) == [text |-> s.source_text_preview, metadata |-> s.metadata]

\* (data.sources || []).map(...) raises when data.sources is truthy without
\* .map, and when an element is null.
SourcesThrow(srcs) ==
  \/ srcs.kind = "nonarray"
  \/ srcs.kind = "array" /\ \E i \in 1..Len(srcs.items) : srcs.items[i].kind = "null"

TransformSources(srcs) ==
  IF srcs.kind = "array"
  THEN [i \in 1..Len(srcs.items) |-> MapSource(srcs.items[i])]
  ELSE <<>>

\* await response.json() rejects on a body that is not JSON; data.sources
\* raises on null data.
JsonThrows(body) ==
  \/ body.kind = "unparseable"
  \/ body.kind = "null"
  \/ SourcesThrow(body.sources)

\* data.answer || "I apologize, but I could not generate a response."
AnswerContent_AlwaysFallback(body) == FallbackText
AnswerContent_Nullish(body) ==
  IF body.answer.present THEN body.answer.value ELSE FallbackText
AnswerContent(body) ==
  IF body.answer.present /\ Truthy(body.answer.value)
  THEN body.answer.value ELSE FallbackText

\* 3. Remove loading message and add actual response
SuccessUpdate_DropOnly(prev, body) == SliceLast(prev)
SuccessUpdate_NoSlice(prev, body) ==
  Append(prev, AnswerMessage(AnswerContent(body), TransformSources(body.sources)))
SuccessUpdate(prev, body) ==
  Append(SliceLast(prev),
         AnswerMessage(AnswerContent(body), TransformSources(body.sources)))

\* 3b. Remove loading message and add error message
ErrorUpdate_NoSlice(prev) == Append(prev, ErrorMessage)
ErrorUpdate_SliceTwo(prev) == Append(SliceLast(SliceLast(prev)), ErrorMessage)
ErrorUpdate(prev) == Append(SliceLast(prev), ErrorMessage)

\* The catch clause runs iff the try block threw.
CatchApplies_Always(threw) == TRUE
CatchApplies(threw) == threw

\* finally { setIsLoading(false) }
FinallyFlag_SuccessOnly(loading, threw) == IF threw THEN loading ELSE FALSE
FinallyFlag(loading, threw) == FALSE

\* body: JSON.stringify({ query: userMessage })
RequestBody_RawInput(userMessage, inp) == [query |-> inp]
RequestBody(userMessage, inp) == [query |-> userMessage]

(* ------------------------------ render -------------------------------- *)
\* ChatMessage: if (message.isLoading) return null
RendersBubble_Always(m) == TRUE
RendersBubble(m) == ~m.isLoading

\* {isLoading && ( ... "AI is typing..." ... )}
TypingShown(loading) == loading

\* <input ... disabled={isLoading} />
InputDisabled(loading) == loading

\* <Button type="submit" disabled={isLoading || !input.trim()} />
ButtonDisabled(loading, inp) == loading \/ ~Truthy(Trim(inp))

\* The badge and its toggle button are rendered for
\* !isUser && message.sources && message.sources.length > 0.
ToggleAvailable(m) ==
  /\ RendersBubble(m)
  /\ m.role # "user"
  /\ m.sources.present
  /\ Len(m.sources.items) > 0

\* key={index}: the ChatMessage instance at an index that stays in the list
\* keeps its local state; one at a new index mounts with useState(false).
Mount(exp, msgs) ==
  [i \in 1..Len(msgs) |-> IF i <= Len(exp) THEN exp[i] ELSE FALSE]

\* onClick={() => setExpandedSources(!expandedSources)}
Toggled_SetTrue(e) == TRUE
Toggled(e) == ~e

(* ------------------------------ state --------------------------------- *)
VARIABLES
  messages,    \* useState<Message[]>
  input,       \* useState("")
  isLoading,   \* useState(false): the in-flight flag
  calls,       \* suspended handleSubmit invocations: [query, pc, xid]
  exchanges,   \* history: per accepted submit, [base, answered, failed]
  last,        \* history: the handler segment that ran last, and its inputs
  requests,    \* history: the bodies passed to fetch, in order
  expanded     \* useState(false) of the ChatMessage at each index

vars == <<messages, input, isLoading, calls, exchanges, last, requests, expanded>>

Event(e, o, b) == [event |-> e, fetch |-> o, body |-> b, index |-> 0]
ToggleEvent(i) == [event |-> "toggle", fetch |-> "none", body |-> NoBody, index |-> i]

Init ==
  /\ messages = <<WelcomeMessage>>
  /\ input = <<>>
  /\ isLoading = FALSE
  /\ calls = <<>>
  /\ exchanges = <<>>
  /\ last = Event("init", "none", NoBody)
  /\ requests = <<>>
  /\ expanded = Mount(<<>>, <<WelcomeMessage>>)

RemoveAt(s, i) == SubSeq(s, 1, i - 1) \o SubSeq(s, i + 1, Len(s))

\* onChange={(e) => setInput(e.target.value)}
onChange(v) ==
  /\ input' = v
  /\ last' = Event("type", "none", NoBody)
  /\ UNCHANGED <<messages, isLoading, calls, exchanges, requests, expanded>>

\* handleSubmit up to `await fetch(...)`.
handleSubmit ==
  IF SubmitRejected(input, isLoading)
  THEN /\ last' = Event("rejected", "none", NoBody)
       /\ UNCHANGED <<messages, input, isLoading, calls, exchanges,
                       requests, expanded>>
  ELSE LET userMessage == Trim(input) IN
       /\ Len(exchanges) < MaxExchanges
       /\ input' = <<>>
       /\ messages' = AddLoading(AddUser(messages, userMessage))
       /\ isLoading' = TRUE
       /\ calls' = Append(calls, [query |-> userMessage, pc |-> "fetch",
                                  xid |-> Len(exchanges) + 1])
       /\ exchanges' = Append(exchanges,
                              [base |-> Len(messages), answered |-> 0, failed |-> 0])
       /\ requests' = Append(requests, RequestBody(userMessage, input))
       /\ expanded' = Mount(expanded, messages')
       /\ last' = Event("submitted", "none", NoBody)

\* The rest of the try / catch / finally statement for suspended call i:
\* the success replacement when the try block ran to its end, the error
\* replacement when the catch clause runs, then the finally clause.
Complete(i, threw, body) ==
  LET x == calls[i].xid
      afterTry == IF threw THEN messages ELSE SuccessUpdate(messages, body)
      caught == CatchApplies(threw)
  IN /\ messages' = IF caught THEN ErrorUpdate(afterTry) ELSE afterTry
     /\ isLoading' = FinallyFlag(isLoading, threw)
     /\ calls' = RemoveAt(calls, i)
     /\ exchanges' = [exchanges EXCEPT
                        ![x].answered = @ + (IF threw THEN 0 ELSE 1),
                        ![x].failed = @ + (IF caught THEN 1 ELSE 0)]
     /\ expanded' = Mount(expanded, messages')
     /\ UNCHANGED <<input, requests>>

\* `await fetch(...)` settles for suspended call i.
FetchSettles(i, outcome) ==
  /\ calls[i].pc = "fetch"
  /\ last' = Event("fetch", outcome, NoBody)
  /\ IF FetchThrows(outcome)
     THEN Complete(i, TRUE, NoBody)
     ELSE /\ calls' = [calls EXCEPT ![i].pc = "json"]
          /\ UNCHANGED <<messages, input, isLoading, exchanges, requests, expanded>>

\* `await response.json()` settles for suspended call i.
JsonSettles(i, body) ==
  /\ calls[i].pc = "json"
  /\ last' = Event("json", "ok", body)
  /\ Complete(i, JsonThrows(body), body)

\* A click on the badge of the message at index i.
toggleSources(i) ==
  /\ ToggleAvailable(messages[i])
  /\ expanded' = [expanded EXCEPT ![i] = Toggled(@)]
  /\ last' = ToggleEvent(i)
  /\ UNCHANGED <<messages, input, isLoading, calls, exchanges, requests>>

Type == \E v \in Texts : onChange(v)
Toggle == \E i \in 1..Len(messages) : toggleSources(i)
FetchSettle == \E i \in 1..Len(calls) : \E o \in FetchOutcomes : FetchSettles(i, o)
JsonSettle == \E i \in 1..Len(calls) : \E b \in Bodies : JsonSettles(i, b)

Next == Type \/ handleSubmit \/ FetchSettle \/ JsonSettle \/ Toggle

Spec == Init /\ [][Next]_vars

\* Every issued call settles: both awaits of a suspended call complete.
FairSpec == Spec /\ WF_vars(FetchSettle) /\ WF_vars(JsonSettle)

(* ------------------- vocabulary of the properties --------------------- *)
LoadingIndexes == {i \in DOMAIN messages : messages[i].isLoading}
LastMessage == messages[Len(messages)]
SubmitEvents == {"submitted", "rejected"}

\* s has a character that is not whitespace.
NonBlank(s) == \E k \in DOMAIN s : s[k] \notin Whitespace

\* t is s without its leading and trailing whitespace.
IsTrimOf(t, s) ==
  \E i \in 1..(Len(s) + 1) : \E j \in 0..Len(s) :
     /\ t = SubSeq(s, i, j)
     /\ \A k \in 1..(i - 1) : s[k] \in Whitespace
     /\ \A k \in (j + 1)..Len(s) : s[k] \in Whitespace
     /\ t # <<>> => (t[1] \notin Whitespace /\ t[Len(t)] \notin Whitespace)

IsPlaceholder(m) ==
  /\ m.role = "assistant" /\ m.content = <<>> /\ m.isLoading = TRUE
  /\ m.error = FALSE /\ m.sources.present = FALSE

\* The answering call failed: fetch rejected, the status was not a success,
\* the body was not JSON or was JSON null, or data.sources could not be
\* mapped (a truthy value that is not an array, or an array holding null).
CallFailed(ev) ==
  \/ ev.event = "fetch" /\ ev.fetch \in {"reject", "notok"}
  \/ /\ ev.event = "json"
     /\ \/ ev.body.kind \in {"unparseable", "null"}
        \/ ev.body.sources.kind = "nonarray"
        \/ /\ ev.body.sources.kind = "array"
           /\ NullItem \in {ev.body.sources.items[i] : i \in DOMAIN ev.body.sources.items}

CallSucceeded(ev) == ev.event = "json" /\ ~CallFailed(ev)

Exits(x) == x.answered + x.failed

(* ------------------------------- C1 ----------------------------------- *)
\* C1: in every reachable state at most one message has isLoading = true,
\* and while a request is outstanding that message is the last element of
\* the conversation.
C1_SingleLoadingLast ==
  /\ Cardinality(LoadingIndexes) <= 1
  /\ LoadingIndexes \subseteq {Len(messages)}
  /\ calls # <<>> => LoadingIndexes = {Len(messages)}

\* A second exchange is outstanding after the first one failed.
C1_Witness ==
  /\ calls # <<>>
  /\ Len(messages) = 5
  /\ messages[3].error
  /\ LoadingIndexes = {5}

(* ------------------------------- C2 ----------------------------------- *)
\* C2: at most one outbound answering call is outstanding at any time, and
\* the in-flight flag is set whenever one is.
C2_OneCallOutstanding ==
  /\ Len(calls) <= 1
  /\ calls # <<>> => isLoading

\* A submit with text typed was attempted while a call was outstanding.
C2_Witness ==
  /\ Len(calls) = 1
  /\ calls[1].pc = "json"
  /\ last.event = "rejected"
  /\ NonBlank(input)

(* ------------------------------- C3 ----------------------------------- *)
\* C3: a submit of an input whose trimmed form is non-empty, made while no
\* request is in flight, appends exactly a user message holding the trimmed
\* text followed by a placeholder (isLoading = true, empty content), and
\* sets the in-flight flag.
C3_SubmitAppendsTwo ==
  [][(last'.event \in SubmitEvents /\ NonBlank(input) /\ ~isLoading) =>
       /\ Len(messages') = Len(messages) + 2
       /\ SubSeq(messages', 1, Len(messages)) = messages
       /\ messages'[Len(messages) + 1].role = "user"
       /\ IsTrimOf(messages'[Len(messages) + 1].content, input)
       /\ messages'[Len(messages) + 1].isLoading = FALSE
       /\ IsPlaceholder(messages'[Len(messages) + 2])
       /\ isLoading' = TRUE]_vars

\* The second submit was accepted, after a first exchange that was answered.
C3_Witness ==
  /\ last.event = "submitted"
  /\ Len(messages) = 5
  /\ ~messages[3].error
  /\ messages[2] = UserMessage(<<"a">>)
  /\ messages[4] = UserMessage(<<"a", " ", "b">>)
  /\ IsPlaceholder(messages[5])
  /\ isLoading

(* ------------------------------- C4 ----------------------------------- *)
\* C4: a submit made while the in-flight flag is true is a no-op: the
\* conversation and the flag are unchanged and no call is issued.
C4_SubmitInFlightNoOp ==
  [][(last'.event \in SubmitEvents /\ isLoading) =>
       /\ messages' = messages
       /\ isLoading' = isLoading
       /\ calls' = calls]_vars

\* A submit of non-blank text was ignored while the call awaited fetch.
C4_Witness ==
  /\ last.event = "rejected"
  /\ isLoading
  /\ NonBlank(input)
  /\ Len(calls) = 1 /\ calls[1].pc = "fetch"
  /\ IsPlaceholder(LastMessage)

(* ------------------------------- C5 ----------------------------------- *)
\* C5: a submit whose input is empty or only whitespace has no effect: no
\* message is created, the in-flight flag is unchanged, no call is issued.
C5_BlankSubmitNoEffect ==
  [][(last'.event \in SubmitEvents /\ ~NonBlank(input)) =>
       /\ messages' = messages
       /\ input' = input
       /\ isLoading' = isLoading
       /\ calls' = calls]_vars

\* A whitespace-only input was submitted while idle and ignored.
C5_Witness ==
  /\ last.event = "rejected"
  /\ ~isLoading
  /\ input # <<>>
  /\ ~NonBlank(input)
  /\ calls = <<>>

(* ------------------------------- C6 ----------------------------------- *)
\* C6: when the answering call succeeds, the placeholder (the last element)
\* is replaced in place by one finalized assistant message (isLoading not
\* true, error not true); the conversation length is the length before the
\* submit plus 2, and the in-flight flag is false.
C6_SuccessReplacesPlaceholder ==
  [][CallSucceeded(last') =>
       /\ IsPlaceholder(LastMessage)
       /\ Len(messages') = Len(messages)
       /\ SubSeq(messages', 1, Len(messages) - 1) = SubSeq(messages, 1, Len(messages) - 1)
       /\ messages'[Len(messages')].role = "assistant"
       /\ messages'[Len(messages')].isLoading = FALSE
       /\ messages'[Len(messages')].error = FALSE
       /\ Len(messages') = exchanges'[Len(exchanges')].base + 2
       /\ isLoading' = FALSE]_vars

\* The second exchange was answered, from a body that is not an object.
C6_Witness ==
  /\ CallSucceeded(last)
  /\ last.body.kind = "scalar"
  /\ Len(messages) = 5
  /\ LastMessage.role = "assistant" /\ ~LastMessage.isLoading /\ ~LastMessage.error
  /\ ~isLoading

(* ------------------------------- C7 ----------------------------------- *)
\* C7: for every kind of failure of the answering call (non-success status,
\* network rejection, a body that is not JSON, a sources value that cannot
\* be mapped) the placeholder is replaced by one finalized assistant message
\* holding the fixed connectivity-error text, with error = true and no
\* sources; the conversation length is the pre-submit length plus 2 and the
\* in-flight flag is false.
C7_FailureRecordsError ==
  CallFailed(last) =>
    /\ LastMessage.role = "assistant"
    /\ LastMessage.content = ErrorText
    /\ LastMessage.error = TRUE
    /\ LastMessage.sources.present = FALSE
    /\ LastMessage.isLoading = FALSE
    /\ LoadingIndexes = {}
    /\ Len(messages) = exchanges[Len(exchanges)].base + 2
    /\ isLoading = FALSE

\* The failure was raised while mapping data.sources of a parsed body.
C7_Witness ==
  /\ last.event = "json"
  /\ last.body.kind = "object"
  /\ CallFailed(last)
  /\ LastMessage = ErrorMessage
  /\ Len(messages) = 3
  /\ ~isLoading

(* ------------------------------- C8 ----------------------------------- *)
\* C8: a failed request never alters or removes prior messages: every
\* message before the failing exchange's placeholder, the user message of
\* that exchange included, keeps its position and its fields.
C8_FailureKeepsPriorMessages ==
  [][CallFailed(last') =>
       /\ Len(messages') >= Len(messages)
       /\ \A i \in 1..(Len(messages) - 1) : messages'[i] = messages[i]
       /\ \A i \in 1..Len(calls) :
            messages'[Len(messages) - 1] = UserMessage(calls[i].query)]_vars

\* The second exchange failed after the first was answered with a citation.
C8_Witness ==
  /\ CallFailed(last)
  /\ Len(messages) = 5
  /\ messages[3].sources.present /\ messages[3].sources.items # <<>>
  /\ messages[4].role = "user"
  /\ messages[5].error

(* ------------------------------- C9 ----------------------------------- *)
\* C9: AwaitingResponse (in-flight flag true) is entered only by an accepted
\* submit; each exchange leaves it exactly once, to Answered or to Failed
\* and never both; and it has left before a new submit is accepted.
C9_ExchangeLifecycle ==
  [][/\ (~isLoading /\ isLoading') => last'.event = "submitted"
     /\ (last'.event = "submitted") =>
           /\ ~isLoading
           /\ \A x \in DOMAIN exchanges : Exits(exchanges[x]) = 1
     /\ (isLoading /\ ~isLoading') => Exits(exchanges'[Len(exchanges')]) = 1
     /\ \A x \in DOMAIN exchanges' :
           /\ Exits(exchanges'[x]) <= 1
           /\ (Exits(exchanges'[x]) = 0) => (x = Len(exchanges') /\ isLoading')]_vars

\* Two exchanges ran to their ends: the first failed, the second was answered.
C9_Witness ==
  /\ Len(exchanges) = 2
  /\ exchanges[1].failed = 1 /\ exchanges[1].answered = 0
  /\ exchanges[2].answered = 1 /\ exchanges[2].failed = 0
  /\ ~isLoading
  /\ calls = <<>>

(* ------------------------------- C10 ---------------------------------- *)
\* C10: the in-flight flag is never left stuck true: once every issued call
\* settles, a flag that is true eventually becomes false, on the success
\* path and on the failure path alike.
C10_FlagEventuallyCleared == isLoading ~> ~isLoading

\* After a failure raised while reading the body, a later submit was
\* accepted and its exchange ended as well.
C10_Witness ==
  /\ Len(exchanges) = 2
  /\ exchanges[1].failed = 1
  /\ Exits(exchanges[2]) = 1
  /\ last.event = "json"
  /\ last.body.kind = "unparseable"
  /\ ~isLoading

(* ------------------------------- C11 ---------------------------------- *)
\* The citation items of a parsed body: the elements of data.sources when
\* it is an array, none when it is absent or falsy.
Citations(body) == IF body.sources.kind = "array" THEN body.sources.items ELSE <<>>

\* C11: after a successful response carrying N citation items, the
\* finalized message's sources has length N, in the order of the response,
\* each text equal to the item's source_text_preview and each metadata
\* equal to the item's metadata.
C11_SourcesMapped ==
  CallSucceeded(last) =>
    /\ LastMessage.sources.present
    /\ Len(LastMessage.sources.items) = Len(Citations(last.body))
    /\ \A k \in 1..Len(Citations(last.body)) :
         /\ LastMessage.sources.items[k].text = Citations(last.body)[k].source_text_preview
         /\ LastMessage.sources.items[k].metadata = Citations(last.body)[k].metadata

\* A response with two different citations was mapped.
C11_Witness ==
  /\ CallSucceeded(last)
  /\ last.body.sources.items = <<Item1, Item2>>
  /\ LastMessage.sources.items =
       <<[text |-> "p1", metadata |-> "m1"], [text |-> "p2", metadata |-> Undefined]>>

(* ------------------------------- C12 ---------------------------------- *)
\* C12: on a successful response the finalized message's content is the
\* answer when it is non-empty, and the fixed fallback string when the
\* answer is empty or absent; the fallback message is a normal answer
\* (error not true) and carries the mapped sources.
C12_AnswerOrFallback ==
  CallSucceeded(last) =>
    /\ (last.body.answer.present /\ last.body.answer.value # <<>>)
          => LastMessage.content = last.body.answer.value
    /\ (~last.body.answer.present \/ last.body.answer.value = <<>>)
          => /\ LastMessage.content =
                  <<"I apologize, but I could not generate a response.">>
             /\ LastMessage.error = FALSE
             /\ Len(LastMessage.sources.items) = Len(Citations(last.body))

\* An empty answer came with two citations.
C12_Witness ==
  /\ CallSucceeded(last)
  /\ last.body.answer = [present |-> TRUE, value |-> <<>>]
  /\ LastMessage.content = FallbackText
  /\ Len(LastMessage.sources.items) = 2
  /\ ~LastMessage.error

(* ------------------------------- C13 ---------------------------------- *)
\* The message at index i is a finalized answer: an assistant message after
\* the welcome message that is neither the placeholder nor an error.
IsAnswer(i) ==
  /\ i > 1
  /\ messages[i].role = "assistant"
  /\ ~messages[i].isLoading
  /\ ~messages[i].error

\* C13 as stated: a message carries a sources field only if it is an
\* assistant message whose response returned citations; the field is absent
\* on every other message, answers without citations included.
C13_SourcesOnlyWithCitations ==
  \A i \in DOMAIN messages :
     messages[i].sources.present =>
        (messages[i].role = "assistant" /\ messages[i].sources.items # <<>>)

\* C13 as amended: exactly the finalized answers carry a sources field; it
\* is an empty array when the response returned no citations, and non-empty
\* only when it returned some.  User messages, the welcome message, the
\* placeholder and error messages have no sources field.
C13_SourcesOnAnswers ==
  /\ \A i \in DOMAIN messages : messages[i].sources.present <=> IsAnswer(i)
  /\ \A i \in DOMAIN messages :
        ~messages[i].sources.present => messages[i].sources.items = <<>>
  /\ CallSucceeded(last) =>
        (LastMessage.sources.items # <<>> <=> Citations(last.body) # <<>>)

\* An answer whose response had no sources value carries an empty array.
C13_Witness ==
  /\ CallSucceeded(last)
  /\ last.body.kind = "object"
  /\ last.body.sources.kind = "absent"
  /\ LastMessage.sources.present
  /\ LastMessage.sources.items = <<>>

(* ------------------------------- C14 ---------------------------------- *)
\* C14: each accepted submit issues exactly one outbound call whose query is
\* the trimmed user text, the content of the user message just appended; a
\* rejected submit issues none and a failure is not retried, so the number of
\* calls issued equals the number of accepted submits.
C14_OneCallPerAcceptedSubmit ==
  [][/\ (last'.event = "submitted") =>
          /\ Len(requests') = Len(requests) + 1
          /\ IsTrimOf(requests'[Len(requests')].query, input)
          /\ requests'[Len(requests')].query = messages'[Len(messages) + 1].content
          /\ SubSeq(requests', 1, Len(requests)) = requests
     /\ (last'.event # "submitted") => requests' = requests
     /\ Len(requests') = Len(exchanges')]_vars

\* After the first exchange failed, only the second submit issued a call.
C14_Witness ==
  /\ Len(exchanges) = 2
  /\ Len(messages) = 5
  /\ exchanges[1].failed = 1
  /\ Len(calls) = 1
  /\ requests = <<[query |-> <<"a">>], [query |-> <<"a", " ", "b">>]>>
  /\ messages[2].content = <<"a">>
  /\ messages[5].isLoading

(* ------------------------------- C15 ---------------------------------- *)
\* C15: in every rendered state the in-flight flag is true if and only if
\* the last element of the conversation is a placeholder; when the flag is
\* false no message has isLoading = true.
C15_FlagIffPlaceholderLast ==
  /\ isLoading <=> LastMessage.isLoading
  /\ ~isLoading => LoadingIndexes = {}
  /\ isLoading => LoadingIndexes = {Len(messages)}

\* The first call has passed fetch and awaits the body; the flag is still
\* true and the placeholder is still last.
C15_Witness ==
  /\ isLoading
  /\ Len(messages) = 3
  /\ IsPlaceholder(messages[3])
  /\ Len(calls) = 1 /\ calls[1].pc = "json"
  /\ last.event = "fetch"

(* ------------------------------- C16 ---------------------------------- *)
\* C16: a message has empty content if and only if it is the placeholder
\* (isLoading = true); user messages, the welcome message, answers (the
\* fallback for an empty answer included) and error messages are non-empty.
C16_EmptyContentIffPlaceholder ==
  \A i \in DOMAIN messages : (messages[i].content = <<>>) <=> messages[i].isLoading

\* The first exchange was answered with the fallback text and the second
\* one shows its placeholder.
C16_Witness ==
  /\ Len(messages) = 5
  /\ messages[3].content = FallbackText
  /\ messages[3].sources.items # <<>>
  /\ messages[5].content = <<>>
  /\ messages[5].isLoading

(* ------------------------------- C17 ---------------------------------- *)
\* The indexes of the messages rendered as a bubble.
Bubbles == {i \in DOMAIN messages : RendersBubble(messages[i])}

\* C17: a message is rendered as a bubble if and only if its isLoading is
\* not true, so the placeholder is never a bubble; the typing indicator is
\* shown if and only if the in-flight flag is true; the input field is
\* disabled exactly while the flag is true.
C17_RenderProjection ==
  /\ Bubbles = DOMAIN messages \ LoadingIndexes
  /\ TypingShown(isLoading) <=> isLoading
  /\ InputDisabled(isLoading) <=> isLoading
  /\ isLoading => (Bubbles = 1..(Len(messages) - 1) /\ TypingShown(isLoading))
  /\ ~isLoading => (Bubbles = DOMAIN messages /\ ~TypingShown(isLoading))

\* The second exchange is in flight: four bubbles, the placeholder hidden,
\* the indicator shown and the field disabled.
C17_Witness ==
  /\ isLoading
  /\ Len(messages) = 5
  /\ Bubbles = 1..4
  /\ TypingShown(isLoading)
  /\ InputDisabled(isLoading)
  /\ ButtonDisabled(isLoading, input)
  /\ last.event = "submitted"

(* ------------------------------- C18 ---------------------------------- *)
\* C18: every message's source list starts collapsed; a toggle inverts the
\* disclosure state of its message, so two toggles return it to collapsed;
\* a toggle changes nothing else (other messages' disclosure states, the
\* conversation, the in-flight flag); and only assistant messages with at
\* least one source can be toggled.
C18_DisclosureLocal ==
  [][/\ DOMAIN expanded' = DOMAIN messages'
     /\ (last'.event = "toggle") =>
          /\ messages[last'.index].role = "assistant"
          /\ messages[last'.index].sources.items # <<>>
          /\ expanded'[last'.index] = ~expanded[last'.index]
          /\ \A j \in DOMAIN expanded \ {last'.index} : expanded'[j] = expanded[j]
          /\ UNCHANGED <<messages, isLoading, input, calls, requests>>
     /\ (last'.event # "toggle") =>
          /\ \A j \in DOMAIN expanded : expanded'[j] = expanded[j]
          /\ \A j \in DOMAIN expanded' \ DOMAIN expanded : expanded'[j] = FALSE
     /\ \A j \in DOMAIN expanded' :
          expanded'[j] => (messages'[j].role = "assistant"
                           /\ messages'[j].sources.items # <<>>)]_vars

\* The list of the second answer was opened and closed again while the list
\* of the first answer stayed open.
C18_Witness ==
  /\ last.event = "toggle"
  /\ last.index = 5
  /\ expanded[5] = FALSE
  /\ expanded[3] = TRUE
  /\ Len(messages) = 5

(* ------------------------------- C19 ---------------------------------- *)
\* The shape of a conversation after k accepted submits.
Shape(msgs, k) ==
  /\ msgs[1].role = "assistant"
  /\ msgs[1].content = WelcomeText
  /\ msgs[1] = WelcomeMessage
  /\ Len(msgs) = 1 + 2 * k
  /\ \A i \in 2..Len(msgs) :
        msgs[i].role = (IF i % 2 = 0 THEN "user" ELSE "assistant")

\* C19: the first message is the fixed welcome message, unchanged; the
\* length is 1 + 2k for k accepted submits and never decreases; after the
\* welcome message the roles alternate user, assistant, so each user message
\* is followed at once by its placeholder or finalized assistant message.
C19_ConversationShape ==
  [][/\ Shape(messages, Len(exchanges))
     /\ Shape(messages', Len(exchanges'))
     /\ Len(messages') >= Len(messages)]_vars

\* Two finished exchanges: the first failed, the second was answered.
C19_Witness ==
  /\ Len(messages) = 5
  /\ messages[2].role = "user" /\ messages[4].role = "user"
  /\ messages[3].error
  /\ IsAnswer(5)
  /\ ~isLoading
  /\ last.event = "json"

====
